---- MODULE Spec2Model ----
(***************************************************************************)
(* Model of the GetToken use-case of kubelogin                              *)
(* (pkg/usecases/credentialplugin/get_token.go).                            *)
(*                                                                          *)
(* Every concurrent invocation of GetToken.Do is a process p.  One action   *)
(* per collaborator call made by Do: Mutex.Acquire, FindByKey,              *)
(* Authentication.Do (followed by the local DecodeWithoutVerify),           *)
(* TokenCacheRepository.Save, Writer.Write and the deferred Mutex.Release.  *)
(* The collaborators (mutex, token cache, authentication, writer, token     *)
(* decoding) are interfaces whose code is outside the use-case; they are    *)
(* modelled by their contracts.                                             *)
(*                                                                          *)
(* Go pointers are sequences of length <= 1 (Nil is the empty sequence),    *)
(* Go errors are sequences of messages, outermost wrapper first (the nil    *)
(* error is the empty sequence).                                            *)
(***************************************************************************)
EXTENDS Integers, Sequences, FiniteSets, TLC

\* ---------------------------------------------------------------- bounds
\* Number of concurrent invocations of GetToken.Do.
NumProcs == 2

Procs == 1..NumProcs

\* ------------------------------------------------------------ Go helpers
Nil == <<>>

Ptr(x) == <<x>>

Deref(ptr) == ptr[1]

\* xerrors.Errorf("<msg>: %w", err)
Errorf(msg, err) == <<msg>> \o err

\* strings.Join(elems, sep)
RECURSIVE Join(_, _)
Join(elems, sep) ==
    IF Len(elems) = 0 THEN ""
    ELSE IF Len(elems) = 1 THEN elems[1]
    ELSE elems[1] \o sep \o Join(Tail(elems), sep)

\* ------------------------------------------------------- request inputs
\* authentication.GrantOptionSet: one pointer per grant strategy.
AuthCodeBrowserGrant ==
    [AuthCodeBrowserOption |-> Ptr([SkipOpenBrowser |-> FALSE]), ROPCOption |-> Nil]

AuthCodeSkipBrowserGrant ==
    [AuthCodeBrowserOption |-> Ptr([SkipOpenBrowser |-> TRUE]), ROPCOption |-> Nil]

ROPCGrant(username) ==
    [AuthCodeBrowserOption |-> Nil, ROPCOption |-> Ptr([Username |-> username])]

\* An Input DTO with the given cache root and grant options.
Request(dir, grant) ==
    [IssuerURL |-> "https://issuer.example.com",
     ClientID |-> "YOUR_CLIENT_ID",
     ClientSecret |-> "YOUR_CLIENT_SECRET",
     ExtraScopes |-> <<"email">>,
     TokenCacheDir |-> dir,
     GrantOptionSet |-> grant,
     TLSClientConfig |->
        [CACertFilename |-> <<"ca1.crt", "ca2.crt">>, CACertData |-> <<>>, SkipTLSVerify |-> FALSE]]

\* The Input DTOs the concurrent invocations are started with: two that share
\* the cache root and the Token Cache Key and differ in grant options the key
\* leaves out, and one with another cache root and another key.
Requests ==
    {Request("/cache/a", AuthCodeBrowserGrant),
     Request("/cache/a", AuthCodeSkipBrowserGrant),
     Request("/cache/b", ROPCGrant("alice"))}

\* The elements of a list.
Range(list) == {list[k] : k \in DOMAIN list}

\* tokenCacheKey as built by Do.
TokenCacheKeyUnordered(i) ==
    [IssuerURL |-> i.IssuerURL,
     ClientID |-> i.ClientID,
     ClientSecret |-> i.ClientSecret,
     Username |-> IF i.GrantOptionSet.ROPCOption # Nil
                  THEN Deref(i.GrantOptionSet.ROPCOption).Username
                  ELSE "",
     ExtraScopes |-> Range(i.ExtraScopes),
     CACertFilename |-> Range(i.TLSClientConfig.CACertFilename),
     CACertData |-> Range(i.TLSClientConfig.CACertData),
     SkipTLSVerify |-> i.TLSClientConfig.SkipTLSVerify]

TokenCacheKeyWithoutUsername(i) ==
    [IssuerURL |-> i.IssuerURL,
     ClientID |-> i.ClientID,
     ClientSecret |-> i.ClientSecret,
     Username |-> "",
     ExtraScopes |-> i.ExtraScopes,
     CACertFilename |-> Join(i.TLSClientConfig.CACertFilename, ","),
     CACertData |-> Join(i.TLSClientConfig.CACertData, ","),
     SkipTLSVerify |-> i.TLSClientConfig.SkipTLSVerify]

TokenCacheKey(i) ==
    [IssuerURL |-> i.IssuerURL,
     ClientID |-> i.ClientID,
     ClientSecret |-> i.ClientSecret,
     Username |-> IF i.GrantOptionSet.ROPCOption # Nil
                  THEN Deref(i.GrantOptionSet.ROPCOption).Username
                  ELSE "",
     ExtraScopes |-> i.ExtraScopes,
     CACertFilename |-> Join(i.TLSClientConfig.CACertFilename, ","),
     CACertData |-> Join(i.TLSClientConfig.CACertData, ","),
     SkipTLSVerify |-> i.TLSClientConfig.SkipTLSVerify]

\* authenticationInput as built by Do.
AuthenticationInput(i, cached) ==
    [Provider |-> [IssuerURL |-> i.IssuerURL,
                   ClientID |-> i.ClientID,
                   ClientSecret |-> i.ClientSecret,
                   ExtraScopes |-> i.ExtraScopes],
     GrantOptionSet |-> i.GrantOptionSet,
     CachedTokenSet |-> cached,
     TLSClientConfig |-> i.TLSClientConfig]

\* The lock name Do passes to Mutex.Acquire.
LockNamePerGrant(i) ==
    IF i.GrantOptionSet.ROPCOption # Nil THEN "get-token-ropc"
    ELSE IF Deref(i.GrantOptionSet.AuthCodeBrowserOption).SkipOpenBrowser
         THEN "get-token-keyboard"
         ELSE "get-token-browser"

LockNamePerCacheDir(i) == i.TokenCacheDir

LockName(i) == "get-token"

\* ------------------------------------------------------------ token sets
\* oidc.TokenSet values the identity provider can issue.  "not-a-jwt" is an
\* ID token that is structurally invalid.
IDTokens == {"jwt-1", "jwt-2", "not-a-jwt"}

TokenSets == [IDToken : IDTokens, RefreshToken : {"YOUR_REFRESH_TOKEN"}]

\* TokenSet.DecodeWithoutVerify: the claims of the ID token, or an error when
\* the token is structurally invalid.
DecodeWithoutVerify(ts) ==
    IF ts.IDToken = "jwt-1" THEN [claims |-> Ptr([Expiry |-> 3600, Pretty |-> "sub-1"]), err |-> Nil]
    ELSE IF ts.IDToken = "jwt-2" THEN [claims |-> Ptr([Expiry |-> 7200, Pretty |-> "sub-2"]), err |-> Nil]
    ELSE [claims |-> Nil, err |-> <<"could not decode the token">>]

\* ---------------------------------------------------------- collaborators
\* mutex.Interface.Acquire(ctx, name): the Lock Handle, granted only while no
\* handle of that name is held; or an error (timeout, cancelled context).
MutexAcquire(heldLocks, name, p) ==
    {[lock |-> Nil, err |-> <<e>>] : e \in {"context canceled", "could not lock"}}
    \cup (IF \E l \in heldLocks : l.Name = name
          THEN {}
          ELSE {[lock |-> Ptr([Name |-> name, Data |-> p]), err |-> Nil]})

\* mutex.Interface.Release(lock): ok, or an error that leaves the lock held.
MutexRelease(heldLocks, l) ==
    {[held |-> heldLocks \ {l}, err |-> Nil],
     [held |-> heldLocks, err |-> <<"could not unlock">>]}

\* tokencache.Interface.FindByKey(dir, key)
RepoFindByKey(c, dir, key) ==
    IF <<dir, key>> \in DOMAIN c
    THEN {[tokenSet |-> Ptr(c[<<dir, key>>]), err |-> Nil],
          [tokenSet |-> Nil, err |-> <<"invalid token cache file">>]}
    ELSE {[tokenSet |-> Nil, err |-> <<"file not found">>]}

\* tokencache.Interface.Save(dir, key, tokenSet)
RepoSave(c, dir, key, ts) ==
    {[cache |-> [s \in DOMAIN c \cup {<<dir, key>>} |->
                    IF s = <<dir, key>> THEN ts ELSE c[s]],
      err |-> Nil],
     [cache |-> c, err |-> <<"could not create a file">>]}

\* authentication.Interface.Do(ctx, input): reuses the candidate as-is, or runs
\* a fresh round with the identity provider, or fails.
AuthenticationDo(input) ==
    {[out |-> Nil, err |-> <<"oidc error">>]}
    \cup {[out |-> Ptr([AlreadyHasValidIDToken |-> FALSE, TokenSet |-> ts]), err |-> Nil] :
            ts \in TokenSets}
    \cup (IF input.CachedTokenSet # Nil
          THEN {[out |-> Ptr([AlreadyHasValidIDToken |-> TRUE,
                              TokenSet |-> Deref(input.CachedTokenSet)]),
                 err |-> Nil]}
          ELSE {})

\* credentialpluginwriter.Interface.Write(out)
WriterWrite(out) == {Nil, <<"could not encode">>}

\* ------------------------------------------------------------------ state
VARIABLES
    in,                    \* in[p]: the Input of invocation p
    pc,                    \* pc[p]: the next collaborator call of invocation p
    lock,                  \* lock[p]: the Lock Handle returned by Acquire
    cachedTokenSet,        \* cachedTokenSet[p]: result of FindByKey
    authenticationOutput,  \* authenticationOutput[p]: result of Authentication.Do
    idTokenClaims,         \* idTokenClaims[p]: result of DecodeWithoutVerify
    ret,                   \* ret[p]: the value returned by Do
    calls,                 \* calls[p]: the collaborator calls made by invocation p
    cache,                 \* the token cache: <<dir, key>> -> TokenSet
    held,                  \* the Lock Handles currently held in the mutex
    keyIn,                 \* key derivation: the two Inputs compared
    keyOut,                \* key derivation: their tokenCacheKeys, once derived
    kubeconfig,            \* Standalone: the provider entry in the kubeconfig
    standaloneIn,          \* Standalone: the Input of Standalone.Do
    standalonePc,          \* Standalone: the next collaborator call
    authProvider,          \* Standalone: the entry GetCurrentAuthProvider returned
    standaloneOut,         \* Standalone: result of Authentication.Do
    standaloneRet,         \* Standalone: the value returned by Standalone.Do
    standaloneCalls        \* Standalone: the collaborator calls made

\* The state of the GetToken invocations.
getTokenVars == <<in, pc, lock, cachedTokenSet, authenticationOutput, idTokenClaims,
                  ret, calls, cache, held>>

\* The state of the key derivation taken alone.
keyVars == <<keyIn, keyOut>>

\* The state of the Standalone use-case.
standaloneVars == <<kubeconfig, standaloneIn, standalonePc, authProvider,
                    standaloneOut, standaloneRet, standaloneCalls>>

vars == <<getTokenVars, keyVars, standaloneVars>>

Running == [returned |-> FALSE, err |-> Nil]

Return(err) == [returned |-> TRUE, err |-> err]

Call(op, arg, res, err) == [op |-> op, arg |-> arg, res |-> res, err |-> err]

\* No key derivation is under way.
KeyIdle == keyIn = Nil /\ keyOut = Nil

\* Standalone.Do is not invoked.
StandaloneIdle ==
    /\ kubeconfig = Nil
    /\ standaloneIn = Nil
    /\ standalonePc = "idle"
    /\ authProvider = Nil
    /\ standaloneOut = Nil
    /\ standaloneRet = Running
    /\ standaloneCalls = <<>>

Init ==
    /\ KeyIdle
    /\ StandaloneIdle
    /\ in \in [Procs -> Requests]
    /\ pc = [p \in Procs |-> "acquire"]
    /\ lock = [p \in Procs |-> Nil]
    /\ cachedTokenSet = [p \in Procs |-> Nil]
    /\ authenticationOutput = [p \in Procs |-> Nil]
    /\ idTokenClaims = [p \in Procs |-> Nil]
    /\ ret = [p \in Procs |-> Running]
    /\ calls = [p \in Procs |-> <<>>]
    /\ cache = [s \in {} |-> Nil]
    /\ held = {}

\* ------------------------------------------------- control flow of Do
\* What Do does after each collaborator call: the next call (pc) and the
\* value returned, if it returns.  A return statement past the defer leads to
\* the deferred Release ("release"), which runs before Do hands back ret.

\* lines 57-62
AfterAcquireIgnoringError(r) == [pc |-> "find", ret |-> Running]

AfterAcquire(r) ==
    IF r.err # Nil THEN [pc |-> "done", ret |-> Return(r.err)]
    ELSE [pc |-> "find", ret |-> Running]

\* lines 78-80: a lookup error is logged only
AfterFindByKeyFatal(r) ==
    IF r.err # Nil
    THEN [pc |-> "release", ret |-> Return(Errorf("could not find a token cache", r.err))]
    ELSE [pc |-> "auth", ret |-> Running]

AfterFindByKey(r) == [pc |-> "auth", ret |-> Running]

\* lines 77, 90: the candidate handed to the delegate
Candidate(r) == r.tokenSet

\* lines 103-110
SaveNeededAlways(out) == TRUE

SaveNeeded(out) == ~out.AlreadyHasValidIDToken

\* line 95
AuthenticationErrorUntagged(err) == err

AuthenticationError(err) == Errorf("authentication error", err)

\* line 99
DecodeErrorTaggedAsAuthentication(err) == Errorf("authentication error", err)

DecodeError(err) == Errorf("you got an invalid token", err)

\* lines 94-110
AfterAuthenticationSavingFirst(r) ==
    IF r.err # Nil THEN [pc |-> "release", ret |-> Return(AuthenticationError(r.err))]
    ELSE IF SaveNeeded(Deref(r.out)) THEN [pc |-> "save", ret |-> Running]
    ELSE IF DecodeWithoutVerify(Deref(r.out).TokenSet).err # Nil
    THEN [pc |-> "release",
          ret |-> Return(DecodeError(DecodeWithoutVerify(Deref(r.out).TokenSet).err))]
    ELSE [pc |-> "write", ret |-> Running]

AfterAuthentication(r) ==
    IF r.err # Nil THEN [pc |-> "release", ret |-> Return(AuthenticationError(r.err))]
    ELSE IF DecodeWithoutVerify(Deref(r.out).TokenSet).err # Nil
    THEN [pc |-> "release",
          ret |-> Return(DecodeError(DecodeWithoutVerify(Deref(r.out).TokenSet).err))]
    ELSE IF SaveNeeded(Deref(r.out)) THEN [pc |-> "save", ret |-> Running]
    ELSE [pc |-> "write", ret |-> Running]

\* line 108
CacheWriteError(err) == Errorf("could not write the token cache", err)

\* lines 107-109
AfterSaveIgnoringError(err) == [pc |-> "write", ret |-> Running]

AfterSaveWithoutRelease(err) ==
    IF err # Nil THEN [pc |-> "done", ret |-> Return(CacheWriteError(err))]
    ELSE [pc |-> "write", ret |-> Running]

AfterSave(err) ==
    IF err # Nil THEN [pc |-> "release", ret |-> Return(CacheWriteError(err))]
    ELSE [pc |-> "write", ret |-> Running]

\* line 107: the Token Set handed to Save
SavedTokenSetWithoutRefreshToken(out) ==
    [IDToken |-> out.TokenSet.IDToken, RefreshToken |-> ""]

SavedTokenSet(out) == out.TokenSet

\* lines 112-115
OutputWithoutExpiry(out, claims) == [Token |-> out.TokenSet.IDToken, Expiry |-> 0]

Output(out, claims) == [Token |-> out.TokenSet.IDToken, Expiry |-> claims.Expiry]

\* lines 116-119
AfterWriteWithoutRelease(err) ==
    IF err # Nil
    THEN [pc |-> "done", ret |-> Return(Errorf("could not write the token to client-go", err))]
    ELSE [pc |-> "done", ret |-> Return(Nil)]

AfterWrite(err) ==
    IF err # Nil
    THEN [pc |-> "release", ret |-> Return(Errorf("could not write the token to client-go", err))]
    ELSE [pc |-> "release", ret |-> Return(Nil)]

\* line 61: the handle handed to Release
ReleasedLock(l) == l

\* line 61: `_ = u.Mutex.Release(lock)`; the value r that Do returns stays
AfterReleaseEscalating(r, err) ==
    IF err # Nil THEN Return(Errorf("could not release the lock", err)) ELSE r

AfterRelease(r, err) == r

\* ---------------------------------------------------------------- actions
\* line 56: u.Mutex.Acquire(ctx, "get-token")
Acquire(p) ==
    /\ pc[p] = "acquire"
    /\ \E r \in MutexAcquire(held, LockName(in[p]), p) :
        /\ lock' = [lock EXCEPT ![p] = r.lock]
        /\ held' = IF r.err = Nil THEN held \cup {Deref(r.lock)} ELSE held
        /\ calls' = [calls EXCEPT ![p] = Append(@, Call("Acquire", LockName(in[p]), r.lock, r.err))]
        /\ pc' = [pc EXCEPT ![p] = AfterAcquire(r).pc]
        /\ ret' = [ret EXCEPT ![p] = AfterAcquire(r).ret]
    /\ UNCHANGED <<in, cachedTokenSet, authenticationOutput, idTokenClaims, cache>>
    /\ UNCHANGED <<keyVars, standaloneVars>>

\* lines 64-80: u.TokenCacheRepository.FindByKey(in.TokenCacheDir, tokenCacheKey)
FindByKey(p) ==
    /\ pc[p] = "find"
    /\ \E r \in RepoFindByKey(cache, in[p].TokenCacheDir, TokenCacheKey(in[p])) :
        /\ cachedTokenSet' = [cachedTokenSet EXCEPT ![p] = Candidate(r)]
        /\ calls' = [calls EXCEPT ![p] =
                        Append(@, Call("FindByKey",
                                       <<in[p].TokenCacheDir, TokenCacheKey(in[p])>>,
                                       r.tokenSet, r.err))]
        /\ pc' = [pc EXCEPT ![p] = AfterFindByKey(r).pc]
        /\ ret' = [ret EXCEPT ![p] = AfterFindByKey(r).ret]
    /\ UNCHANGED <<in, lock, authenticationOutput, idTokenClaims, cache, held>>
    /\ UNCHANGED <<keyVars, standaloneVars>>

\* lines 82-101: u.Authentication.Do(ctx, authenticationInput), then
\* authenticationOutput.TokenSet.DecodeWithoutVerify()
Authenticate(p) ==
    /\ pc[p] = "auth"
    /\ \E r \in AuthenticationDo(AuthenticationInput(in[p], cachedTokenSet[p])) :
        /\ authenticationOutput' = [authenticationOutput EXCEPT ![p] = r.out]
        /\ idTokenClaims' = [idTokenClaims EXCEPT ![p] =
                                IF r.err = Nil
                                THEN DecodeWithoutVerify(Deref(r.out).TokenSet).claims
                                ELSE Nil]
        /\ calls' = [calls EXCEPT ![p] =
                        Append(@, Call("Authentication.Do",
                                       AuthenticationInput(in[p], cachedTokenSet[p]),
                                       r.out, r.err))]
        /\ pc' = [pc EXCEPT ![p] = AfterAuthentication(r).pc]
        /\ ret' = [ret EXCEPT ![p] = AfterAuthentication(r).ret]
    /\ UNCHANGED <<in, lock, cachedTokenSet, cache, held>>
    /\ UNCHANGED <<keyVars, standaloneVars>>

\* line 107: u.TokenCacheRepository.Save(in.TokenCacheDir, tokenCacheKey, TokenSet)
Save(p) ==
    /\ pc[p] = "save"
    /\ \E r \in RepoSave(cache, in[p].TokenCacheDir, TokenCacheKey(in[p]),
                         SavedTokenSet(Deref(authenticationOutput[p]))) :
        /\ cache' = r.cache
        /\ calls' = [calls EXCEPT ![p] =
                        Append(@, Call("Save",
                                       <<in[p].TokenCacheDir, TokenCacheKey(in[p]),
                                         SavedTokenSet(Deref(authenticationOutput[p]))>>,
                                       Nil, r.err))]
        /\ pc' = [pc EXCEPT ![p] = AfterSave(r.err).pc]
        /\ ret' = [ret EXCEPT ![p] = AfterSave(r.err).ret]
    /\ UNCHANGED <<in, lock, cachedTokenSet, authenticationOutput, idTokenClaims, held>>
    /\ UNCHANGED <<keyVars, standaloneVars>>

\* lines 111-119: u.Writer.Write(out)
Write(p) ==
    /\ pc[p] = "write"
    /\ \E err \in WriterWrite(Output(Deref(authenticationOutput[p]), Deref(idTokenClaims[p]))) :
        /\ calls' = [calls EXCEPT ![p] =
                        Append(@, Call("Write",
                                       Output(Deref(authenticationOutput[p]),
                                              Deref(idTokenClaims[p])),
                                       Nil, err))]
        /\ pc' = [pc EXCEPT ![p] = AfterWrite(err).pc]
        /\ ret' = [ret EXCEPT ![p] = AfterWrite(err).ret]
    /\ UNCHANGED <<in, lock, cachedTokenSet, authenticationOutput, idTokenClaims, cache, held>>
    /\ UNCHANGED <<keyVars, standaloneVars>>

\* lines 60-62: the deferred u.Mutex.Release(lock); its error is discarded
Release(p) ==
    /\ pc[p] = "release"
    /\ \E r \in MutexRelease(held, Deref(ReleasedLock(lock[p]))) :
        /\ held' = r.held
        /\ calls' = [calls EXCEPT ![p] = Append(@, Call("Release", ReleasedLock(lock[p]), Nil, r.err))]
        /\ ret' = [ret EXCEPT ![p] = AfterRelease(@, r.err)]
    /\ pc' = [pc EXCEPT ![p] = "done"]
    /\ UNCHANGED <<in, lock, cachedTokenSet, authenticationOutput, idTokenClaims, cache>>
    /\ UNCHANGED <<keyVars, standaloneVars>>

Next ==
    \E p \in Procs :
        \/ Acquire(p)
        \/ FindByKey(p)
        \/ Authenticate(p)
        \/ Save(p)
        \/ Write(p)
        \/ Release(p)

Spec == Init /\ [][Next]_vars

\* ------------------------------------------- the key derivation taken alone
\* No invocation of GetToken.Do is under way.
GetTokenIdle ==
    /\ in = [p \in Procs |-> Request("/cache/a", AuthCodeBrowserGrant)]
    /\ pc = [p \in Procs |-> "done"]
    /\ lock = [p \in Procs |-> Nil]
    /\ cachedTokenSet = [p \in Procs |-> Nil]
    /\ authenticationOutput = [p \in Procs |-> Nil]
    /\ idTokenClaims = [p \in Procs |-> Nil]
    /\ ret = [p \in Procs |-> Running]
    /\ calls = [p \in Procs |-> <<>>]
    /\ cache = [s \in {} |-> Nil]
    /\ held = {}

\* The Input DTOs whose keys are compared: every combination of extra scopes,
\* CA files and CA data in either order, grant options, cache root and
\* skip-verify flag.
KeyInputs ==
    [IssuerURL : {"https://issuer.example.com"},
     ClientID : {"YOUR_CLIENT_ID"},
     ClientSecret : {"YOUR_CLIENT_SECRET"},
     ExtraScopes : {<<"email">>, <<"email", "groups">>, <<"groups", "email">>},
     TokenCacheDir : {"/cache/a", "/cache/b"},
     GrantOptionSet : {AuthCodeBrowserGrant, AuthCodeSkipBrowserGrant,
                       ROPCGrant("alice"), ROPCGrant("bob")},
     TLSClientConfig :
        [CACertFilename : {<<"ca1.crt", "ca2.crt">>, <<"ca2.crt", "ca1.crt">>},
         CACertData : {<<"data1", "data2">>, <<"data2", "data1">>},
         SkipTLSVerify : BOOLEAN]]

InitKey ==
    /\ GetTokenIdle
    /\ StandaloneIdle
    /\ keyIn \in {Ptr(pair) : pair \in KeyInputs \X KeyInputs}
    /\ keyOut = Nil

\* lines 65-77 for a first and for a second request: both derive their key;
\* the first saves a Token Set under its key into an empty cache, the second
\* looks its key up.
DeriveKeys ==
    /\ keyIn # Nil
    /\ keyOut = Nil
    /\ LET first == Deref(keyIn)[1]
           second == Deref(keyIn)[2]
           saved == CHOOSE r \in RepoSave([s \in {} |-> Nil], first.TokenCacheDir,
                                          TokenCacheKey(first),
                                          [IDToken |-> "jwt-1",
                                           RefreshToken |-> "YOUR_REFRESH_TOKEN"]) :
                        r.err = Nil
       IN  keyOut' = Ptr([first |-> TokenCacheKey(first),
                          second |-> TokenCacheKey(second),
                          secondFinds |->
                            \E r \in RepoFindByKey(saved.cache, second.TokenCacheDir,
                                                    TokenCacheKey(second)) :
                                r.err = Nil])
    /\ UNCHANGED <<keyIn, getTokenVars, standaloneVars>>

NextKey == DeriveKeys

SpecKey == InitKey /\ [][NextKey]_vars

\* -------------------------------------------------- reading the call logs
\* The positions of invocation p's calls of operation op.
CallsOf(p, op) == {k \in DOMAIN calls[p] : calls[p][k].op = op}

Called(p, op) == CallsOf(p, op) # {}

\* The operations invocation p called, in order.
Ops(p) == [k \in DOMAIN calls[p] |-> calls[p][k].op]

\* Invocation p's Acquire returned a Lock Handle.
Acquired(p) == calls[p] # <<>> /\ calls[p][1].op = "Acquire" /\ calls[p][1].err = Nil

\* The cache entry invocation p looks up and saves.
Slot(p) == <<in[p].TokenCacheDir, TokenCacheKey(in[p])>>

\* Invocation p is inside the section lookup -> authenticate -> save.
InCriticalSection(p) == pc[p] \in {"find", "auth", "save"}

\* The delegate returned successfully to invocation p.
Authenticated(p) == \E k \in CallsOf(p, "Authentication.Do") : calls[p][k].err = Nil

\* The delegate returned a fresh token to invocation p.
FreshRound(p) ==
    \E k \in CallsOf(p, "Authentication.Do") :
        calls[p][k].err = Nil /\ ~Deref(calls[p][k].res).AlreadyHasValidIDToken

\* The delegate reported to invocation p that the cached token was reused.
Reused(p) ==
    \E k \in CallsOf(p, "Authentication.Do") :
        calls[p][k].err = Nil /\ Deref(calls[p][k].res).AlreadyHasValidIDToken

\* ------------------------------------------------------------------ claims

\* C1: every invocation acquires the lock named "get-token", whatever its
\* provider parameters or cache root; each of its FindByKey,
\* Authentication.Do and Save calls comes after its successful Acquire and
\* before its Release, while its Lock Handle is held; and no two invocations
\* are inside the section lookup -> authenticate -> save at the same time.
C1_MutualExclusion ==
    /\ \A p \in Procs :
        /\ \A k \in CallsOf(p, "Acquire") : k = 1 /\ calls[p][k].arg = "get-token"
        /\ \A k \in DOMAIN calls[p] :
            calls[p][k].op \in {"FindByKey", "Authentication.Do", "Save"}
                => /\ Acquired(p)
                   /\ \A j \in CallsOf(p, "Release") : k < j
        /\ InCriticalSection(p) => lock[p] # Nil /\ Deref(lock[p]) \in held
    /\ \A p, q \in Procs : p # q => ~(InCriticalSection(p) /\ InCriticalSection(q))

\* C1 witness: one invocation is about to save while another one, started
\* with a different cache root and different grant options, has not been
\* granted the lock.
C1_Witness ==
    \E p, q \in Procs :
        /\ p # q
        /\ pc[p] = "save"
        /\ in[p].TokenCacheDir # in[q].TokenCacheDir
        /\ in[p].GrantOptionSet # in[q].GrantOptionSet
        /\ pc[q] = "acquire"
        /\ Deref(lock[p]) \in held

\* The collaborators behave as claim C2 supposes for invocation p: a lookup
\* fails only when there is no entry, the delegate reuses every candidate it
\* is given, and a round without candidate yields a fresh token that decodes
\* and is saved successfully.
C2_Supposed(p) ==
    /\ \A k \in CallsOf(p, "FindByKey") :
        calls[p][k].err \in {Nil, <<"file not found">>}
    /\ \A k \in CallsOf(p, "Authentication.Do") :
        /\ calls[p][k].err = Nil
        /\ calls[p][k].arg.CachedTokenSet # Nil
            => Deref(calls[p][k].res).AlreadyHasValidIDToken
        /\ DecodeWithoutVerify(Deref(calls[p][k].res).TokenSet).err = Nil
    /\ \A k \in CallsOf(p, "Save") : calls[p][k].err = Nil

C3_Original ==
    \A p \in Procs :
        (pc[p] = "done" /\ FreshRound(p)) => Cardinality(CallsOf(p, "Save")) = 1

\* C3 amended: in every finished invocation in which the delegate returned
\* successfully and reported a fresh token whose ID token decodes, Save was
\* called exactly once, with the cache root and Token Cache Key that were
\* used for FindByKey and with exactly the Token Set the delegate returned.
C3_FreshSavedOnce ==
    \A p \in Procs :
        \A a \in CallsOf(p, "Authentication.Do") :
            (/\ pc[p] = "done"
             /\ calls[p][a].err = Nil
             /\ ~Deref(calls[p][a].res).AlreadyHasValidIDToken
             /\ DecodeWithoutVerify(Deref(calls[p][a].res).TokenSet).err = Nil)
            => /\ Cardinality(CallsOf(p, "Save")) = 1
               /\ \A k \in CallsOf(p, "Save") :
                    \A f \in CallsOf(p, "FindByKey") :
                        /\ f < a /\ a < k
                        /\ calls[p][k].arg[1] = calls[p][f].arg[1]
                        /\ calls[p][k].arg[2] = calls[p][f].arg[2]
                        /\ calls[p][k].arg[3] = Deref(calls[p][a].res).TokenSet

\* C3 witness: a finished invocation that found a cached Token Set, was
\* returned a different, fresh one by the delegate and saved it.
C3_Witness ==
    \E p \in Procs :
        /\ pc[p] = "done"
        /\ FreshRound(p)
        /\ cachedTokenSet[p] # Nil
        /\ \E k \in CallsOf(p, "Save") :
            /\ calls[p][k].err = Nil
            /\ Ptr(calls[p][k].arg[3]) # cachedTokenSet[p]
            /\ cache[Slot(p)] = calls[p][k].arg[3]

\* C4 (calls): an invocation to which the delegate reported a reused token
\* never calls Save, and once it has finished it has handed the writer,
\* exactly once, the ID token of the candidate it found in the cache.
C4_NoSaveOnReuse ==
    \A p \in Procs :
        Reused(p)
        => /\ ~Called(p, "Save")
           /\ pc[p] = "done"
                => /\ Cardinality(CallsOf(p, "Write")) = 1
                   /\ \A k \in CallsOf(p, "Write") :
                        \A f \in CallsOf(p, "FindByKey") :
                            calls[p][k].arg.Token = Deref(calls[p][f].res).IDToken

\* C4 (cache): no step of an invocation to which the delegate reported a
\* reused token changes the cache.
C4_CacheUntouched ==
    \A p \in Procs : (pc'[p] # pc[p] /\ Reused(p)') => cache' = cache

\* C4: when the delegate reports that the cached token was reused as-is, Save
\* is never called in that invocation, the invocation leaves the cache
\* unchanged, and the writer still receives the reused token.
C4_ReuseNeverWrites == []C4_NoSaveOnReuse /\ [][C4_CacheUntouched]_vars

\* C4 witness: a finished invocation that reused the cached token and whose
\* Write succeeded, with the cache entry still the one it found.
C4_Witness ==
    \E p \in Procs :
        /\ pc[p] = "done"
        /\ Reused(p)
        /\ ret[p] = Return(Nil)
        /\ Ptr(cache[Slot(p)]) = cachedTokenSet[p]

\* C5: an invocation whose Acquire succeeded calls Release only as its last
\* call, and once it has finished it has called Release exactly once, with
\* exactly the Lock Handle that Acquire returned, whichever way it ended:
\* success, authentication failure, decode failure, cache-save failure or
\* sink-write failure.
C5_ReleasedOnce ==
    \A p \in Procs :
        Acquired(p)
        => /\ \A k \in CallsOf(p, "Release") :
                /\ k = Len(calls[p])
                /\ k > 1
                /\ pc[p] = "done"
                /\ calls[p][k].arg = calls[p][1].res
           /\ pc[p] = "done" => Cardinality(CallsOf(p, "Release")) = 1
           /\ pc[p] # "done" => ~ret[p].returned \/ pc[p] = "release"

\* C5 witness: an invocation whose Save failed has finished, and its Release
\* gave the lock back.
C5_Witness ==
    \E p \in Procs :
        /\ pc[p] = "done"
        /\ \E k \in CallsOf(p, "Save") : calls[p][k].err # Nil
        /\ \E k \in CallsOf(p, "Release") : calls[p][k].err = Nil
        /\ Deref(lock[p]) \notin held

\* C6 (calls): an invocation whose Acquire failed has returned that error and
\* has made no other call: no FindByKey, Authentication.Do, Save, Write or
\* Release.
C6_NothingAfterFailedAcquire ==
    \A p \in Procs :
        \A k \in CallsOf(p, "Acquire") :
            calls[p][k].err # Nil
            => /\ Len(calls[p]) = 1
               /\ pc[p] = "done"
               /\ ret[p].returned
               /\ ret[p].err # Nil
               /\ ret[p].err = calls[p][k].err

\* C6 (cache): a failing Acquire changes neither the cache nor the locks held.
C6_FailedAcquireStep ==
    \A p \in Procs :
        (pc[p] = "acquire" /\ pc'[p] # pc[p] /\ calls'[p][1].err # Nil)
            => cache' = cache /\ held' = held

\* C6: if guard acquisition fails, also because the context was cancelled
\* while waiting, Do returns an error and makes no FindByKey,
\* Authentication.Do, Save, Write or Release call; the cache is unchanged.
C6_FailedAcquireNoEffect == []C6_NothingAfterFailedAcquire /\ [][C6_FailedAcquireStep]_vars

\* C6 witness: an invocation gave up with a cancelled context while another
\* one, holding the lock, was about to authenticate.
C6_Witness ==
    \E p, q \in Procs :
        /\ p # q
        /\ pc[p] = "done"
        /\ ret[p] = Return(<<"context canceled">>)
        /\ pc[q] = "auth"
        /\ Deref(lock[q]) \in held

\* C7 (calls): an invocation whose delegate failed returns the delegate's
\* error wrapped as "authentication error" and calls neither Save nor Write.
C7_AuthenticationFailure ==
    \A p \in Procs :
        \A k \in CallsOf(p, "Authentication.Do") :
            calls[p][k].err # Nil
            => /\ ret[p].returned
               /\ ret[p].err = <<"authentication error">> \o calls[p][k].err
               /\ ~Called(p, "Save")
               /\ ~Called(p, "Write")
               /\ pc[p] \in {"release", "done"}

\* C7 (cache): no step of an invocation whose delegate failed changes the
\* cache.
C7_CacheUntouched ==
    \A p \in Procs :
        (/\ pc'[p] # pc[p]
         /\ \E k \in DOMAIN calls'[p] :
                calls'[p][k].op = "Authentication.Do" /\ calls'[p][k].err # Nil)
        => cache' = cache

\* C7: if the delegate fails, Do returns an error tagged as an authentication
\* error, neither Save nor Write is called in that invocation, and the cache
\* is unchanged.
C7_AuthenticationFailureNoWrite ==
    []C7_AuthenticationFailure /\ [][C7_CacheUntouched]_vars

\* C7 witness: an invocation that found a cached Token Set and whose delegate
\* failed has finished with the authentication error; the entry is still
\* cached.
C7_Witness ==
    \E p \in Procs :
        /\ pc[p] = "done"
        /\ cachedTokenSet[p] # Nil
        /\ ret[p] = Return(<<"authentication error", "oidc error">>)
        /\ Ptr(cache[Slot(p)]) = cachedTokenSet[p]

\* C8: an invocation whose Save failed after a successful fresh authentication
\* returns the Save error wrapped as a cache-write error, which differs from
\* every authentication error an invocation returns, and never calls Write.
C8_SaveFailure ==
    \A p \in Procs :
        \A k \in CallsOf(p, "Save") :
            calls[p][k].err # Nil
            => /\ FreshRound(p)
               /\ ret[p].returned
               /\ ret[p].err = <<"could not write the token cache">> \o calls[p][k].err
               /\ Head(ret[p].err) # "authentication error"
               /\ \A q \in Procs :
                    \A a \in CallsOf(q, "Authentication.Do") :
                        calls[q][a].err # Nil => ret[q].err # ret[p].err
               /\ ~Called(p, "Write")
               /\ pc[p] \in {"release", "done"}

\* C8 witness: one invocation has finished with a cache-write error and
\* another one with an authentication error.
C8_Witness ==
    \E p, q \in Procs :
        /\ pc[p] = "done" /\ pc[q] = "done"
        /\ ret[p] = Return(<<"could not write the token cache", "could not create a file">>)
        /\ ret[q] = Return(<<"authentication error", "oidc error">>)
        /\ Slot(p) \notin DOMAIN cache

\* C9: a failing FindByKey is never fatal.  Right after it the invocation is
\* where one with an empty cache is: about to call the delegate, without
\* candidate and without having returned.  It calls the delegate at most once
\* and, once it is past that call, exactly once, with no candidate Token Set;
\* and the error it returns, if any, is not the lookup error, wrapped or not.
C9_LookupFailureNotFatal ==
    \A p \in Procs :
        \A f \in CallsOf(p, "FindByKey") :
            calls[p][f].err # Nil
            => /\ cachedTokenSet[p] = Nil
               /\ pc[p] = "auth" => ~ret[p].returned /\ ~Called(p, "Authentication.Do")
               /\ pc[p] # "auth"
                    => /\ Cardinality(CallsOf(p, "Authentication.Do")) = 1
                       /\ \A a \in CallsOf(p, "Authentication.Do") :
                            /\ a = f + 1
                            /\ calls[p][a].arg = AuthenticationInput(in[p], Nil)
               /\ \A k \in DOMAIN ret[p].err : ret[p].err[k] # calls[p][f].err[1]

\* C9 witness: an invocation whose lookup failed on an existing, unreadable
\* entry authenticated afresh, replaced the entry and finished successfully.
C9_Witness ==
    \E p \in Procs :
        /\ pc[p] = "done"
        /\ \E f \in CallsOf(p, "FindByKey") : calls[p][f].err = <<"invalid token cache file">>
        /\ FreshRound(p)
        /\ \E k \in CallsOf(p, "Save") : calls[p][k].err = Nil
        /\ ret[p] = Return(Nil)

C10_Path(p) ==
    IF ~Acquired(p) THEN <<"Acquire">>
    ELSE <<"Acquire", "FindByKey", "Authentication.Do">>
         \o (IF FreshRound(p)
                /\ \A a \in CallsOf(p, "Authentication.Do") :
                      DecodeWithoutVerify(Deref(calls[p][a].res).TokenSet).err = Nil
             THEN <<"Save">> ELSE <<>>)
         \o (IF /\ Authenticated(p)
                /\ \A a \in CallsOf(p, "Authentication.Do") :
                      DecodeWithoutVerify(Deref(calls[p][a].res).TokenSet).err = Nil
                /\ \A k \in CallsOf(p, "Save") : calls[p][k].err = Nil
             THEN <<"Write">> ELSE <<>>)
         \o <<"Release">>

IsPermutation(a, b) ==
    /\ Len(a) = Len(b)
    /\ \A x \in Range(a) \cup Range(b) :
        Cardinality({k \in DOMAIN a : a[k] = x}) = Cardinality({k \in DOMAIN b : b[k] = x})

\* Requests a and b are equal but for the order of their extra-scope, CA-file
\* and CA-data lists.
EqualUpToOrder(a, b) ==
    /\ a.IssuerURL = b.IssuerURL
    /\ a.ClientID = b.ClientID
    /\ a.ClientSecret = b.ClientSecret
    /\ a.TokenCacheDir = b.TokenCacheDir
    /\ a.GrantOptionSet = b.GrantOptionSet
    /\ a.TLSClientConfig.SkipTLSVerify = b.TLSClientConfig.SkipTLSVerify
    /\ IsPermutation(a.ExtraScopes, b.ExtraScopes)
    /\ IsPermutation(a.TLSClientConfig.CACertFilename, b.TLSClientConfig.CACertFilename)
    /\ IsPermutation(a.TLSClientConfig.CACertData, b.TLSClientConfig.CACertData)

AgreeOnKeyFields(a, b) ==
    /\ a.IssuerURL = b.IssuerURL
    /\ a.ClientID = b.ClientID
    /\ a.ClientSecret = b.ClientSecret
    /\ a.ExtraScopes = b.ExtraScopes
    /\ a.TLSClientConfig = b.TLSClientConfig
    /\ a.GrantOptionSet.ROPCOption = b.GrantOptionSet.ROPCOption

\* C12: the key is a function of issuer URL, client ID, client secret, extra
\* scopes, CA file paths, CA data, skip-verify flag and password-grant option
\* alone: requests that agree on these, whatever their cache root and their
\* other grant options, derive the same key.  The key's username is the
\* password-grant username when that option is present, so that two usernames
\* give two keys, and is empty for every other grant strategy.
C12_KeyFunction ==
    keyOut # Nil
    => LET a == Deref(keyIn)[1]
           b == Deref(keyIn)[2]
           ka == Deref(keyOut).first
           kb == Deref(keyOut).second
       IN  /\ AgreeOnKeyFields(a, b) => ka = kb
           /\ a.GrantOptionSet.ROPCOption # Nil
                => ka.Username = Deref(a.GrantOptionSet.ROPCOption).Username
           /\ a.GrantOptionSet.ROPCOption = Nil => ka.Username = ""
           /\ b.GrantOptionSet.ROPCOption # Nil
                => kb.Username = Deref(b.GrantOptionSet.ROPCOption).Username
           /\ b.GrantOptionSet.ROPCOption = Nil => kb.Username = ""
           /\ (/\ a.GrantOptionSet.ROPCOption # Nil
               /\ b.GrantOptionSet.ROPCOption # Nil
               /\ a.GrantOptionSet.ROPCOption # b.GrantOptionSet.ROPCOption)
                => ka # kb

\* C12 witness: the keys of two requests that differ in cache root and in
\* their authorization-code options, and in nothing else, have been derived
\* and are equal, with an empty username.
C12_Witness ==
    /\ keyOut # Nil
    /\ AgreeOnKeyFields(Deref(keyIn)[1], Deref(keyIn)[2])
    /\ Deref(keyIn)[1].TokenCacheDir # Deref(keyIn)[2].TokenCacheDir
    /\ Deref(keyIn)[1].GrantOptionSet # Deref(keyIn)[2].GrantOptionSet
    /\ Deref(keyOut).first = Deref(keyOut).second
    /\ Deref(keyOut).first.Username = ""

\* ------------------------------------- further claims on GetToken.Do

\* C13: an invocation returns success only if it called Write exactly once,
\* that Write succeeded, and its output was the ID token of the Token Set the
\* delegate returned together with the expiry decoded from that token, when
\* the token is fresh and when it is reused.
C13_SuccessMeansWritten ==
    \A p \in Procs :
        ret[p] = Return(Nil)
        => /\ Cardinality(CallsOf(p, "Write")) = 1
           /\ Cardinality(CallsOf(p, "Authentication.Do")) = 1
           /\ \A w \in CallsOf(p, "Write") :
                /\ calls[p][w].err = Nil
                /\ \A a \in CallsOf(p, "Authentication.Do") :
                    /\ calls[p][a].err = Nil
                    /\ calls[p][w].arg.Token = Deref(calls[p][a].res).TokenSet.IDToken
                    /\ calls[p][w].arg.Expiry =
                        Deref(DecodeWithoutVerify(Deref(calls[p][a].res).TokenSet).claims).Expiry

\* C13 witness: one invocation succeeded with a fresh token and another one
\* with the token it reused, each having written its token with its expiry.
C13_Witness ==
    \E p, q \in Procs :
        /\ pc[p] = "done" /\ pc[q] = "done"
        /\ ret[p] = Return(Nil) /\ ret[q] = Return(Nil)
        /\ FreshRound(p) /\ Reused(q)
        /\ \E w \in CallsOf(p, "Write") : calls[p][w].arg = [Token |-> "jwt-2", Expiry |-> 7200]
        /\ \E w \in CallsOf(q, "Write") : calls[q][w].arg = [Token |-> "jwt-2", Expiry |-> 7200]

\* C14: an invocation whose delegate returned a token that does not decode
\* returns the decode error wrapped as "you got an invalid token" and calls
\* neither Save nor Write, also when the delegate reported a fresh token.
C14_DecodeFailure ==
    \A p \in Procs :
        \A a \in CallsOf(p, "Authentication.Do") :
            (/\ calls[p][a].err = Nil
             /\ DecodeWithoutVerify(Deref(calls[p][a].res).TokenSet).err # Nil)
            => /\ ret[p].returned
               /\ ret[p].err = <<"you got an invalid token">>
                                \o DecodeWithoutVerify(Deref(calls[p][a].res).TokenSet).err
               /\ ~Called(p, "Save")
               /\ ~Called(p, "Write")
               /\ pc[p] \in {"release", "done"}

\* C14 witness: an invocation that found a cached Token Set and was returned a
\* fresh token that does not decode has finished; the cached entry is still
\* the one it found.
C14_Witness ==
    \E p \in Procs :
        /\ pc[p] = "done"
        /\ FreshRound(p)
        /\ cachedTokenSet[p] # Nil
        /\ Deref(authenticationOutput[p]).TokenSet.IDToken = "not-a-jwt"
        /\ ret[p] = Return(<<"you got an invalid token", "could not decode the token">>)
        /\ Ptr(cache[Slot(p)]) = cachedTokenSet[p]

\* C15: the Release step never changes the value Do returns, whether Release
\* succeeds or fails: success stays success and each error stays that error.
C15_ReleaseNotEscalated ==
    [][\A p \in Procs : (pc[p] = "release" /\ pc'[p] = "done") => ret'[p] = ret[p]]_vars

\* C15 witness: two invocations went the same way to the same cache-write
\* error; the Release of one succeeded and that of the other failed.
C15_Witness ==
    \E p, q \in Procs :
        /\ pc[p] = "done" /\ pc[q] = "done"
        /\ \E k \in CallsOf(p, "Release") : calls[p][k].err = Nil
        /\ \E k \in CallsOf(q, "Release") : calls[q][k].err # Nil
        /\ ret[p] = Return(<<"could not write the token cache", "could not create a file">>)
        /\ ret[q] = ret[p]

\* The stage at which invocation p failed and the error its collaborator
\* produced there, read from the calls p has made.
C16_Cause(p) ==
    IF \E k \in CallsOf(p, "Acquire") : calls[p][k].err # Nil
    THEN [stage |-> "lock",
          err |-> calls[p][CHOOSE k \in CallsOf(p, "Acquire") : calls[p][k].err # Nil].err]
    ELSE IF \E k \in CallsOf(p, "Authentication.Do") : calls[p][k].err # Nil
    THEN [stage |-> "authentication",
          err |-> calls[p][CHOOSE k \in CallsOf(p, "Authentication.Do") : calls[p][k].err # Nil].err]
    ELSE IF \E k \in CallsOf(p, "Authentication.Do") :
                DecodeWithoutVerify(Deref(calls[p][k].res).TokenSet).err # Nil
    THEN [stage |-> "decode",
          err |-> DecodeWithoutVerify(Deref(calls[p][CHOOSE k \in CallsOf(p, "Authentication.Do") : TRUE].res).TokenSet).err]
    ELSE IF \E k \in CallsOf(p, "Save") : calls[p][k].err # Nil
    THEN [stage |-> "cache write",
          err |-> calls[p][CHOOSE k \in CallsOf(p, "Save") : calls[p][k].err # Nil].err]
    ELSE IF \E k \in CallsOf(p, "Write") : calls[p][k].err # Nil
    THEN [stage |-> "output write",
          err |-> calls[p][CHOOSE k \in CallsOf(p, "Write") : calls[p][k].err # Nil].err]
    ELSE [stage |-> "none", err |-> Nil]

C16_Fatal(p) == ret[p].returned /\ ret[p].err # Nil

\* C16 as stated: every fatal error is the failing stage's error under one
\* more message, and different stages have different messages.  An
\* invocation that fails to acquire the lock violates it.
C16_Original ==
    /\ \A p \in Procs :
        C16_Fatal(p)
        => /\ C16_Cause(p).stage # "none"
           /\ Len(ret[p].err) = Len(C16_Cause(p).err) + 1
           /\ Tail(ret[p].err) = C16_Cause(p).err
    /\ \A p, q \in Procs :
        (C16_Fatal(p) /\ C16_Fatal(q) /\ C16_Cause(p).stage # C16_Cause(q).stage)
        => Head(ret[p].err) # Head(ret[q].err)

C16_StageMessage(stage) ==
    CASE stage = "authentication" -> "authentication error"
      [] stage = "decode" -> "you got an invalid token"
      [] stage = "cache write" -> "could not write the token cache"
      [] stage = "output write" -> "could not write the token to client-go"

\* C16: every fatal error comes from one of the five stages; an error of the
\* authentication, decode, cache-write or output-write stage is returned under
\* that stage's message, the four messages being pairwise different, and an
\* error of the lock stage is returned exactly as Acquire produced it.
C16_StageErrors ==
    /\ \A p \in Procs :
        C16_Fatal(p)
        => LET c == C16_Cause(p) IN
           /\ c.stage # "none"
           /\ c.stage = "lock" => ret[p].err = c.err
           /\ c.stage # "lock" => ret[p].err = <<C16_StageMessage(c.stage)>> \o c.err
    /\ \A p, q \in Procs :
        (/\ C16_Fatal(p) /\ C16_Fatal(q)
         /\ C16_Cause(p).stage # "lock" /\ C16_Cause(q).stage # "lock"
         /\ C16_Cause(p).stage # C16_Cause(q).stage)
        => Head(ret[p].err) # Head(ret[q].err)

\* C16 witness: one invocation returned the error of Acquire as it was and
\* another one returned a decode error under the decode message.
C16_Witness ==
    \E p, q \in Procs :
        /\ pc[p] = "done" /\ pc[q] = "done"
        /\ ret[p] = Return(<<"could not lock">>)
        /\ C16_Cause(p) = [stage |-> "lock", err |-> <<"could not lock">>]
        /\ C16_Cause(q).stage = "decode"
        /\ ret[q] = Return(<<"you got an invalid token", "could not decode the token">>)

\* The successful Save calls of p that stored the Token Set the delegate
\* returned to p.
C17_Saved(p) ==
    {k \in CallsOf(p, "Save") :
        /\ calls[p][k].err = Nil
        /\ calls[p][k].arg[1] = in[p].TokenCacheDir
        /\ calls[p][k].arg[2] = TokenCacheKey(in[p])
        /\ calls[p][k].arg[3] = Deref(authenticationOutput[p]).TokenSet}

C17_WriteFailedAfterFresh(p) ==
    /\ FreshRound(p)
    /\ \E w \in CallsOf(p, "Write") : calls[p][w].err # Nil

C17_WriteFailureState ==
    \A p \in Procs :
        C17_WriteFailedAfterFresh(p)
        => /\ \A w \in CallsOf(p, "Write") :
                /\ ret[p] = Return(<<"could not write the token to client-go">> \o calls[p][w].err)
                /\ \E k \in C17_Saved(p) : k < w
           /\ pc[p] = "release" => cache[Slot(p)] = Deref(authenticationOutput[p]).TokenSet

C17_EndStep ==
    \A p \in Procs :
        (C17_WriteFailedAfterFresh(p) /\ pc[p] = "release" /\ pc'[p] = "done")
        => cache'[Slot(p)] = Deref(authenticationOutput[p]).TokenSet

\* C17: when Write fails after a fresh authentication, Do returns the Write
\* error under "could not write the token to client-go", a Save of the fresh
\* Token Set under the derived key has succeeded before the Write, and the
\* cache holds that Token Set under that key when the invocation ends.
C17_WriteFailureKeepsCache == []C17_WriteFailureState /\ [][C17_EndStep]_vars

\* C17 witness: an invocation that found no entry failed in Write after a
\* fresh authentication and has ended; another invocation with the same key
\* found the Token Set that the first one saved.
C17_Witness ==
    \E p, q \in Procs :
        /\ p # q
        /\ pc[p] = "done"
        /\ C17_WriteFailedAfterFresh(p)
        /\ cachedTokenSet[p] = Nil
        /\ Slot(q) = Slot(p)
        /\ Called(q, "FindByKey")
        /\ cachedTokenSet[q] = Ptr(Deref(authenticationOutput[p]).TokenSet)

\* ------------------------------------- Standalone.Do (configuration mode)
\* standalone.Input
StandaloneInput(filename, context, user, grant) ==
    [KubeconfigFilename |-> filename,
     KubeconfigContext |-> context,
     KubeconfigUser |-> user,
     GrantOptionSet |-> grant]

StandaloneInputs ==
    {StandaloneInput(f, c, u, g) :
        f \in {"", "/path/to/kubeconfig"},
        c \in {"", "theContext"},
        u \in {"", "theUser", "otherUser"},
        g \in {AuthCodeBrowserGrant, ROPCGrant("alice")}}

\* kubeconfig.AuthProvider: the Persisted Provider Entry
AuthProviders ==
    [LocationOfOrigin : {"/path/to/kubeconfig"},
     UserName : {"theUser"},
     IDPIssuerURL : {"https://accounts.google.com"},
     ClientID : {"YOUR_CLIENT_ID"},
     ClientSecret : {"YOUR_CLIENT_SECRET"},
     IDPCertificateAuthority : {"", "/path/to/cert2"},
     IDPCertificateAuthorityData : {"", "BASE64ENCODED2"},
     IDToken : {"", "jwt-1"},
     RefreshToken : {"", "OLD_REFRESH_TOKEN"}]

\* The entry a store without OIDC configuration would amount to.
ZeroAuthProvider ==
    [LocationOfOrigin |-> "", UserName |-> "", IDPIssuerURL |-> "", ClientID |-> "",
     ClientSecret |-> "", IDPCertificateAuthority |-> "",
     IDPCertificateAuthorityData |-> "", IDToken |-> "", RefreshToken |-> ""]

\* kubeconfig.Interface.GetCurrentAuthProvider(filename, context, user): the
\* entry of the store, or an error when there is no OIDC-configured entry for
\* the scoping.
KubeconfigGetCurrentAuthProvider(store, filename, context, user) ==
    IF store = Nil \/ (user # "" /\ user # Deref(store).UserName)
    THEN {[entry |-> Nil, err |-> <<"no oidc config">>]}
    ELSE {[entry |-> store, err |-> Nil]}

\* kubeconfig.Interface.UpdateAuthProvider(entry): the store holds the entry,
\* or an error and the store as it was.
KubeconfigUpdateAuthProvider(store, entry) ==
    {[store |-> Ptr(entry), err |-> Nil], [store |-> store, err |-> <<"I/O error">>]}

\* The error Do returns when the entry cannot be read.
ConfigReadError(err) == Errorf("could not find the current authentication provider", err)

\* After GetCurrentAuthProvider: a read failure is returned at once.
AfterGetCurrentAuthProviderDefaulting(r) ==
    IF r.err # Nil
    THEN [pc |-> "authenticate", ret |-> Running, authProvider |-> Ptr(ZeroAuthProvider)]
    ELSE [pc |-> "authenticate", ret |-> Running, authProvider |-> r.entry]

AfterGetCurrentAuthProvider(r) ==
    IF r.err # Nil
    THEN [pc |-> "done", ret |-> Return(ConfigReadError(r.err)), authProvider |-> Nil]
    ELSE [pc |-> "authenticate", ret |-> Running, authProvider |-> r.entry]

\* The Token Set of the entry, the candidate for reuse, if the entry carries
\* an ID token.
StandaloneCandidate(ap) ==
    IF ap.IDToken # ""
    THEN Ptr([IDToken |-> ap.IDToken, RefreshToken |-> ap.RefreshToken])
    ELSE Nil

\* The TLS Client Configuration built from the entry.
StandaloneTLSClientConfig(ap) ==
    [CACertFilename |-> IF ap.IDPCertificateAuthority # ""
                        THEN <<ap.IDPCertificateAuthority>> ELSE <<>>,
     CACertData |-> IF ap.IDPCertificateAuthorityData # ""
                    THEN <<ap.IDPCertificateAuthorityData>> ELSE <<>>,
     SkipTLSVerify |-> FALSE]

\* The authentication.Input built from the entry.
StandaloneAuthenticationInput(i, ap) ==
    [Provider |-> [IssuerURL |-> ap.IDPIssuerURL,
                   ClientID |-> ap.ClientID,
                   ClientSecret |-> ap.ClientSecret],
     GrantOptionSet |-> i.GrantOptionSet,
     CachedTokenSet |-> StandaloneCandidate(ap),
     TLSClientConfig |-> StandaloneTLSClientConfig(ap)]

\* The entry is written back when the token is fresh.
UpdateNeededAlways(out) == TRUE

UpdateNeeded(out) == ~out.AlreadyHasValidIDToken

\* After Authentication.Do: a delegate failure and a token that does not
\* decode are returned; a reused token ends the invocation with success.
AfterStandaloneAuthentication(r) ==
    IF r.err # Nil THEN [pc |-> "done", ret |-> Return(AuthenticationError(r.err))]
    ELSE IF DecodeWithoutVerify(Deref(r.out).TokenSet).err # Nil
    THEN [pc |-> "done",
          ret |-> Return(DecodeError(DecodeWithoutVerify(Deref(r.out).TokenSet).err))]
    ELSE IF UpdateNeeded(Deref(r.out)) THEN [pc |-> "update", ret |-> Running]
    ELSE [pc |-> "done", ret |-> Return(Nil)]

\* The entry with its token fields set from the Token Set of the delegate.
UpdatedAuthProviderWithoutCAData(ap, out) ==
    [ap EXCEPT !.IDToken = out.TokenSet.IDToken,
               !.RefreshToken = out.TokenSet.RefreshToken,
               !.IDPCertificateAuthorityData = ""]

UpdatedAuthProvider(ap, out) ==
    [ap EXCEPT !.IDToken = out.TokenSet.IDToken,
               !.RefreshToken = out.TokenSet.RefreshToken]

\* The error Do returns when the entry cannot be written back.
KubeconfigWriteError(err) == Errorf("could not update the kubeconfig", err)

AfterUpdateAuthProviderIgnoringError(err) == Return(Nil)

AfterUpdateAuthProvider(err) ==
    Return(IF err # Nil THEN KubeconfigWriteError(err) ELSE Nil)

InitStandalone ==
    /\ GetTokenIdle
    /\ KeyIdle
    /\ kubeconfig \in {Nil} \cup {Ptr(e) : e \in AuthProviders}
    /\ standaloneIn \in {Ptr(i) : i \in StandaloneInputs}
    /\ standalonePc = "read"
    /\ authProvider = Nil
    /\ standaloneOut = Nil
    /\ standaloneRet = Running
    /\ standaloneCalls = <<>>

\* Read the current provider entry.
GetCurrentAuthProvider ==
    /\ standalonePc = "read"
    /\ LET i == Deref(standaloneIn) IN
       \E r \in KubeconfigGetCurrentAuthProvider(kubeconfig, i.KubeconfigFilename,
                                                 i.KubeconfigContext, i.KubeconfigUser) :
        /\ standaloneCalls' = Append(standaloneCalls,
                Call("GetCurrentAuthProvider",
                     <<i.KubeconfigFilename, i.KubeconfigContext, i.KubeconfigUser>>,
                     r.entry, r.err))
        /\ standalonePc' = AfterGetCurrentAuthProvider(r).pc
        /\ standaloneRet' = AfterGetCurrentAuthProvider(r).ret
        /\ authProvider' = AfterGetCurrentAuthProvider(r).authProvider
    /\ UNCHANGED <<kubeconfig, standaloneIn, standaloneOut>>
    /\ UNCHANGED <<getTokenVars, keyVars>>

\* Call the Authentication Delegate and decode the token it returns.
StandaloneAuthenticate ==
    /\ standalonePc = "authenticate"
    /\ LET input == StandaloneAuthenticationInput(Deref(standaloneIn), Deref(authProvider)) IN
       \E r \in AuthenticationDo(input) :
        /\ standaloneCalls' = Append(standaloneCalls,
                Call("Authentication.Do", input, r.out, r.err))
        /\ standaloneOut' = r.out
        /\ standalonePc' = AfterStandaloneAuthentication(r).pc
        /\ standaloneRet' = AfterStandaloneAuthentication(r).ret
    /\ UNCHANGED <<kubeconfig, standaloneIn, authProvider>>
    /\ UNCHANGED <<getTokenVars, keyVars>>

\* Set the token fields of the entry and write the entry back.
UpdateAuthProvider ==
    /\ standalonePc = "update"
    /\ LET entry == UpdatedAuthProvider(Deref(authProvider), Deref(standaloneOut)) IN
       \E r \in KubeconfigUpdateAuthProvider(kubeconfig, entry) :
        /\ authProvider' = Ptr(entry)
        /\ kubeconfig' = r.store
        /\ standaloneCalls' = Append(standaloneCalls,
                Call("UpdateAuthProvider", entry, Nil, r.err))
        /\ standaloneRet' = AfterUpdateAuthProvider(r.err)
    /\ standalonePc' = "done"
    /\ UNCHANGED <<standaloneIn, standaloneOut>>
    /\ UNCHANGED <<getTokenVars, keyVars>>

NextStandalone ==
    \/ GetCurrentAuthProvider
    \/ StandaloneAuthenticate
    \/ UpdateAuthProvider

SpecStandalone == InitStandalone /\ [][NextStandalone]_vars

\* The positions of the calls of op that Standalone.Do has made.
StandaloneCallsOf(op) ==
    {k \in 1..Len(standaloneCalls) : standaloneCalls[k].op = op}

\* ----------------------------------------------- claims on Standalone.Do

\* C18: when reading the current provider entry fails, Do returns an error at
\* once: the read is its only call, so neither the Authentication Delegate
\* nor UpdateAuthProvider is called.
C18_ReadFailure ==
    \A k \in StandaloneCallsOf("GetCurrentAuthProvider") :
        standaloneCalls[k].err # Nil
        => /\ standalonePc = "done"
           /\ standaloneRet.returned
           /\ standaloneRet.err # Nil
           /\ StandaloneCallsOf("Authentication.Do") = {}
           /\ StandaloneCallsOf("UpdateAuthProvider") = {}
           /\ Len(standaloneCalls) = 1

\* C18 witness: the store has an entry, but none for the user asked for; the
\* read failed and Do has returned.
C18_Witness ==
    /\ kubeconfig # Nil
    /\ Deref(standaloneIn).KubeconfigUser = "otherUser"
    /\ standalonePc = "done"
    /\ \E k \in StandaloneCallsOf("GetCurrentAuthProvider") : standaloneCalls[k].err # Nil
    /\ standaloneRet.returned /\ standaloneRet.err # Nil

C19_FreshSuccess ==
    \E a \in StandaloneCallsOf("Authentication.Do") :
        /\ standaloneCalls[a].err = Nil
        /\ ~Deref(standaloneCalls[a].res).AlreadyHasValidIDToken

C19_Decodable ==
    \A a \in StandaloneCallsOf("Authentication.Do") :
        standaloneCalls[a].err = Nil
        => DecodeWithoutVerify(Deref(standaloneCalls[a].res).TokenSet).err = Nil

\* C19 as stated: a finished invocation has called UpdateAuthProvider once if
\* the delegate succeeded with a fresh token and never otherwise.  A fresh
\* token that does not decode violates it.
C19_Original ==
    standalonePc = "done"
    => Cardinality(StandaloneCallsOf("UpdateAuthProvider"))
        = (IF C19_FreshSuccess THEN 1 ELSE 0)

\* C19: UpdateAuthProvider is called at most once, and only after the delegate
\* succeeded with a fresh token that decodes; a finished invocation whose
\* delegate succeeded with a fresh token that decodes has called it once.
C19_UpdateIffFresh ==
    /\ Cardinality(StandaloneCallsOf("UpdateAuthProvider")) <= 1
    /\ StandaloneCallsOf("UpdateAuthProvider") # {} => (C19_FreshSuccess /\ C19_Decodable)
    /\ (standalonePc = "done" /\ C19_FreshSuccess /\ C19_Decodable)
        => Cardinality(StandaloneCallsOf("UpdateAuthProvider")) = 1

\* C19 witness: the entry carried an ID token, the delegate returned a fresh
\* token all the same, and the finished invocation has written the entry back
\* once.
C19_Witness ==
    /\ standalonePc = "done"
    /\ C19_FreshSuccess
    /\ \E a \in StandaloneCallsOf("Authentication.Do") :
        standaloneCalls[a].arg.CachedTokenSet # Nil
    /\ Cardinality(StandaloneCallsOf("UpdateAuthProvider")) = 1

C20_KeptFields ==
    {"LocationOfOrigin", "UserName", "IDPIssuerURL", "ClientID", "ClientSecret",
     "IDPCertificateAuthority", "IDPCertificateAuthorityData"}

\* C20: the entry passed to UpdateAuthProvider has the origin location, user
\* name, issuer URL, client ID, client secret, CA file and CA data of the entry
\* that was read, and the ID token and refresh token of the Token Set the
\* delegate returned.
C20_UpdateFrame ==
    \A u \in StandaloneCallsOf("UpdateAuthProvider") :
        \A g \in StandaloneCallsOf("GetCurrentAuthProvider") :
            \A a \in StandaloneCallsOf("Authentication.Do") :
                /\ DOMAIN standaloneCalls[u].arg = DOMAIN Deref(standaloneCalls[g].res)
                /\ \A f \in C20_KeptFields :
                    standaloneCalls[u].arg[f] = Deref(standaloneCalls[g].res)[f]
                /\ standaloneCalls[u].arg.IDToken
                    = Deref(standaloneCalls[a].res).TokenSet.IDToken
                /\ standaloneCalls[u].arg.RefreshToken
                    = Deref(standaloneCalls[a].res).TokenSet.RefreshToken

\* C20 witness: an entry with a CA file, CA data and old tokens was read and
\* written back with the new tokens.
C20_Witness ==
    \E u \in StandaloneCallsOf("UpdateAuthProvider") :
        \E g \in StandaloneCallsOf("GetCurrentAuthProvider") :
            /\ Deref(standaloneCalls[g].res).IDPCertificateAuthority = "/path/to/cert2"
            /\ Deref(standaloneCalls[g].res).IDPCertificateAuthorityData = "BASE64ENCODED2"
            /\ Deref(standaloneCalls[g].res).IDToken = "jwt-1"
            /\ Deref(standaloneCalls[g].res).RefreshToken = "OLD_REFRESH_TOKEN"
            /\ standaloneCalls[u].arg.IDToken = "jwt-2"
            /\ standaloneCalls[u].arg.RefreshToken = "YOUR_REFRESH_TOKEN"
            /\ standaloneCalls[u].err = Nil
            /\ kubeconfig = Ptr(standaloneCalls[u].arg)

\* C21: when UpdateAuthProvider fails after a successful fresh authentication,
\* Do returns the error of UpdateAuthProvider under the entry-write message,
\* which is not the message of an authentication error; it does not return
\* success.
C21_UpdateFailure ==
    \A u \in StandaloneCallsOf("UpdateAuthProvider") :
        standaloneCalls[u].err # Nil
        => /\ C19_FreshSuccess
           /\ standalonePc = "done"
           /\ standaloneRet.returned
           /\ standaloneRet.err # Nil
           /\ standaloneRet.err = <<"could not update the kubeconfig">> \o standaloneCalls[u].err
           /\ \A e \in {Nil, <<"oidc error">>, standaloneCalls[u].err} :
                standaloneRet.err # AuthenticationError(e)
           /\ Head(standaloneRet.err) # Head(AuthenticationError(Nil))

\* C21 witness: the delegate returned a fresh token, UpdateAuthProvider failed
\* with an I/O error, Do has returned the entry-write error and the store
\* holds the entry that was read.
C21_Witness ==
    /\ standalonePc = "done"
    /\ C19_FreshSuccess
    /\ \E u \in StandaloneCallsOf("UpdateAuthProvider") :
        standaloneCalls[u].err = <<"I/O error">>
    /\ standaloneRet = Return(<<"could not update the kubeconfig", "I/O error">>)
    /\ \E g \in StandaloneCallsOf("GetCurrentAuthProvider") :
        kubeconfig = standaloneCalls[g].res

\* --------------------------------------------- GetToken.Do under fairness
\* line 56 returning a Lock Handle: the guard grants the lock
AcquireGranted(p) == Acquire(p) /\ lock'[p] # Nil

\* line 61 with a guard whose Release succeeds
ReleaseSucceeding(p) == Release(p) /\ (\A l \in held' : l.Data # p)

NextLive ==
    \E p \in Procs :
        \/ Acquire(p)
        \/ FindByKey(p)
        \/ Authenticate(p)
        \/ Save(p)
        \/ Write(p)
        \/ ReleaseSucceeding(p)

\* Every invocation keeps running, every collaborator call returns, and the
\* guard grants a lock that stays free to an invocation waiting for it.
Fairness ==
    \A p \in Procs :
        /\ WF_vars(AcquireGranted(p))
        /\ WF_vars(FindByKey(p))
        /\ WF_vars(Authenticate(p))
        /\ WF_vars(Save(p))
        /\ WF_vars(Write(p))
        /\ WF_vars(ReleaseSucceeding(p))

\* The invocations whose progress is followed: all take the one lock name,
\* with the same cache entry or with different ones.
LiveRequests ==
    {Request("/cache/a", AuthCodeBrowserGrant), Request("/cache/b", ROPCGrant("alice"))}

InitLive == Init /\ in \in [Procs -> LiveRequests]

SpecLive == InitLive /\ [][NextLive]_vars /\ Fairness

\* Invocation p holds the lock.
HoldsLock(p) == \E l \in held : l.Data = p

\* Acquire returned an error to invocation p.
AcquireFailed(p) == calls[p] # <<>> /\ calls[p][1].op = "Acquire" /\ calls[p][1].err # Nil

\* ------------------------------------------------------ claim on liveness

\* C22 as stated: every invocation that acquires the lock eventually ends
\* without holding it, and every invocation waiting on the lock eventually
\* acquires it.  An invocation whose Acquire ends with an error (timeout,
\* cancelled context) never acquires the lock.
C22_Original ==
    \A p \in Procs :
        /\ Acquired(p) ~> (pc[p] = "done" /\ ~HoldsLock(p))
        /\ (pc[p] = "acquire") ~> Acquired(p)

\* C22: under fairness, every invocation that acquires the lock eventually
\* ends without holding it, whatever step fails; every invocation waiting on
\* the lock eventually acquires it unless its Acquire returns an error; and
\* eventually every invocation has ended and no lock is held.
C22_LockEventuallyFree ==
    /\ \A p \in Procs :
        /\ Acquired(p) ~> (pc[p] = "done" /\ ~HoldsLock(p))
        /\ (pc[p] = "acquire") ~> (Acquired(p) \/ AcquireFailed(p))
    /\ <>[]((\A p \in Procs : pc[p] = "done") /\ held = {})

\* C22 witness: two invocations have both held the lock, one after the other,
\* the one failed in authentication and the other one in Save; both have
\* ended and no lock is held.
C22_Witness ==
    \E p, q \in Procs :
        /\ Acquired(p) /\ Acquired(q)
        /\ pc[p] = "done" /\ pc[q] = "done"
        /\ ret[p] = Return(<<"authentication error", "oidc error">>)
        /\ ret[q] = Return(<<"could not write the token cache", "could not create a file">>)
        /\ held = {}

====
